---------------------------- MODULE Spec2Model ----------------------------
(***************************************************************************)
(* A model of src/src/Acgnx.ts: the ACGNX RSS torrent provider.            *)
(*                                                                         *)
(* JavaScript strings are modelled as TLA+ strings; a character is a       *)
(* string of length one.  The regular expressions of the source are        *)
(* modelled by matchers over these strings.  JavaScript numbers that can   *)
(* exceed 32 bits (byte counts) are carried as decimal numerals.           *)
(***************************************************************************)
EXTENDS Integers, Sequences, FiniteSets, TLC

VARIABLES
    api,        \* Provider.api, the only field of the object
    pending,    \* calls of search/getLatest suspended at `await fetch(url)`
    fetches,    \* number of fetch(url) requests issued so far
    ret,        \* the completion of the latest call of a public method
    habari,     \* the behaviour of the ambient $habari.parse
    parts,      \* the pieces the input of the function under study was built from
    xml,        \* argument of parseTorrentsFromXml
    torrents,   \* result of parseTorrentsFromXml
    sizeStr,    \* argument of parseSizeToBytes
    bytes,      \* result of parseSizeToBytes
    fragment,   \* first argument of getTagContent
    tagName,    \* second argument of getTagContent
    content,    \* result of getTagContent
    pc,         \* position of the function under study: "call" or "done"
    called      \* the step the provider took last: a method and its argument

vars == <<api, pending, fetches, ret, habari, parts, xml, torrents,
          sizeStr, bytes, fragment, tagName, content, pc, called>>

(***************************************************************************)
(* Strings                                                                 *)
(***************************************************************************)
Min(S) == CHOOSE x \in S : \A y \in S : x <= y

Max(S) == CHOOSE x \in S : \A y \in S : x >= y

\* s.charAt(i - 1): positions are counted from 1 here; "" outside the string.
At(s, i) == IF i < 1 \/ i > Len(s) THEN "" ELSE SubSeq(s, i, i)

\* s.substring(from - 1): the suffix that starts at position from.
From(s, from) == IF from > Len(s) THEN "" ELSE SubSeq(s, from, Len(s))

\* s.substring(from - 1, to): the characters at positions from..to.
Slice(s, from, to) == IF from > to THEN "" ELSE SubSeq(s, from, to)

\* Whether the literal pat occurs in s at position i.
StartsWithAt(s, pat, i) ==
    /\ i >= 1
    /\ i + Len(pat) - 1 <= Len(s)
    /\ SubSeq(s, i, i + Len(pat) - 1) = pat

\* s.indexOf(pat, from - 1) + 1: the first position >= from where pat
\* occurs, 0 when there is none.
IndexOf(s, pat, from) ==
    LET hits == {i \in from..(Len(s) - Len(pat) + 1) : StartsWithAt(s, pat, i)}
    IN  IF hits = {} THEN 0 ELSE Min(hits)

\* s.includes(pat)
Includes(s, pat) == IndexOf(s, pat, 1) # 0

\* f[lo] \o ... \o f[hi], by halves (the depth of the recursion stays small).
RECURSIVE JoinRange(_, _, _)
JoinRange(f, lo, hi) ==
    IF lo > hi THEN ""
    ELSE IF lo = hi THEN f[lo]
    ELSE LET mid == (lo + hi) \div 2
         IN  JoinRange(f, lo, mid) \o JoinRange(f, mid + 1, hi)

UpperAlpha == "ABCDEFGHIJKLMNOPQRSTUVWXYZ"

LowerAlpha == "abcdefghijklmnopqrstuvwxyz"

AlphaIndex == 1..Len(UpperAlpha)

LowerChar(c) ==
    IF \E i \in AlphaIndex : At(UpperAlpha, i) = c
    THEN At(LowerAlpha, CHOOSE i \in AlphaIndex : At(UpperAlpha, i) = c)
    ELSE c

\* s.toLowerCase() on the ASCII strings of the model.
ToLowerCase(s) == JoinRange([i \in 1..Len(s) |-> LowerChar(At(s, i))], 1, Len(s))

\* What String.prototype.trim removes, among the characters of the model.
IsSpace(c) == c \in {" ", "\t", "\n", "\r"}

\* s.trim()
Trim(s) ==
    LET solid == {i \in 1..Len(s) : ~IsSpace(At(s, i))}
    IN  IF solid = {} THEN "" ELSE SubSeq(s, Min(solid), Max(solid))

\* s.split(sep) from position from on, for a non-empty literal separator.
RECURSIVE SplitFrom(_, _, _)
SplitFrom(s, sep, from) ==
    LET k == IndexOf(s, sep, from)
    IN  IF k = 0 THEN <<From(s, from)>>
        ELSE <<Slice(s, from, k - 1)>> \o SplitFrom(s, sep, k + Len(sep))

Split(s, sep) == SplitFrom(s, sep, 1)

DecimalDigits == "0123456789"

IsDigit(c) == \E v \in 0..9 : At(DecimalDigits, v + 1) = c

DigitVal(c) == CHOOSE v \in 0..9 : At(DecimalDigits, v + 1) = c

DigitChar(v) == At(DecimalDigits, v + 1)

(***************************************************************************)
(* Numbers.  A natural number is a sequence of decimal digits, the least   *)
(* significant first, so that byte counts of 2^40 and more stay exact.     *)
(***************************************************************************)
\* The number a string of decimal digits denotes.
NatOfDigits(ds) == [i \in 1..Len(ds) |-> DigitVal(At(ds, Len(ds) + 1 - i))]

\* n * k + carry for a small k.
RECURSIVE MulAdd(_, _, _)
MulAdd(n, k, carry) ==
    IF n = <<>>
    THEN IF carry = 0 THEN <<>> ELSE <<carry % 10>> \o MulAdd(<<>>, k, carry \div 10)
    ELSE LET t == n[1] * k + carry
         IN  <<t % 10>> \o MulAdd(Tail(n), k, t \div 10)

\* The decimal numeral of n, without leading zeros.
Numeral(n) ==
    LET nz == {i \in 1..Len(n) : n[i] # 0}
    IN  IF nz = {} THEN "0"
        ELSE LET top == Max(nz)
             IN  JoinRange([i \in 1..top |-> DigitChar(n[top + 1 - i])], 1, top)

\* n + 1
Succ(n) == MulAdd(n, 1, 1)

(***************************************************************************)
(* parseSizeToBytes (Acgnx.ts 156-177)                                     *)
(***************************************************************************)
\* sizeStr.replace(/[^0-9.]/g, ''): the digits and the dots of s, in order.
KeepNumeric(s) ==
    JoinRange([i \in 1..Len(s) |->
                  IF IsDigit(At(s, i)) \/ At(s, i) = "." THEN At(s, i) ELSE ""],
              1, Len(s))

\* The length of the run of decimal digits of s that starts at position from.
DigitRun(s, from) ==
    LET stops == {i \in from..Len(s) : ~IsDigit(At(s, i))}
    IN  IF stops = {} THEN Len(s) + 1 - from ELSE Min(stops) - from

\* parseFloat(s) for a string of digits and dots: the longest prefix that is
\* a decimal literal (digits, then optionally a dot and digits; at least one
\* digit).  The value is mantissa / 10^scale; nan when no prefix is a literal.
ParseFloat(s) ==
    LET intLen  == DigitRun(s, 1)
        hasDot  == At(s, intLen + 1) = "."
        fracLen == IF intLen < Len(s) /\ hasDot THEN DigitRun(s, intLen + 2) ELSE 0
    IN  [nan      |-> intLen = 0 /\ fracLen = 0,
         mantissa |-> NatOfDigits(Slice(s, 1, intLen)
                                  \o Slice(s, intLen + 2, intLen + 1 + fracLen)),
         scale    |-> fracLen]

\* Kibi as a decimal multiple.
KiloDecimal == 10 * 10 * 10

\* The factor of each `* 1024` of lines 167-171.
Kibi == 1024

\* How many times lines 166-174 multiply value by 1024: the first of the
\* tests on sizeLower that succeeds decides.
UnitPower(sizeLower) ==
    IF Includes(sizeLower, "gb") THEN 3
    ELSE IF Includes(sizeLower, "mb") THEN 2
    ELSE IF Includes(sizeLower, "kb") THEN 1
    ELSE 0

RECURSIVE TimesKibi(_, _)
TimesKibi(n, times) ==
    IF times = 0 THEN n ELSE TimesKibi(MulAdd(n, Kibi, 0), times - 1)

\* Math.round(n / 10^scale) for n >= 0: halves round up.  Within the sizes of
\* the model the double product value * 1024 * ... is exact up to an error far
\* below the distance of any non-tie from a half, so the rounding of the
\* double is the rounding of the exact product.
MathRound(n, scale) ==
    LET whole == IF scale >= Len(n) THEN <<>> ELSE SubSeq(n, scale + 1, Len(n))
        up    == scale >= 1 /\ scale <= Len(n) /\ n[scale] >= 5
    IN  IF up THEN Succ(whole) ELSE whole

\* The byte count is returned as its decimal numeral.
parseSizeToBytes(s) ==
    IF s = "" THEN "0"
    ELSE LET sizeLower == ToLowerCase(s)
             value     == ParseFloat(KeepNumeric(s))
         IN  IF value.nan THEN "0"
             ELSE Numeral(MathRound(TimesKibi(value.mantissa, UnitPower(sizeLower)),
                                    value.scale))

(***************************************************************************)
(* getTagContent (Acgnx.ts 141-147)                                        *)
(***************************************************************************)
\* What `.` does not match without the s flag.
IsLineTerminator(c) == c \in {"\n", "\r"}

\* new RegExp(`<${tagName}><!\\[CDATA\\[(.*?)]]></${tagName}>`, 's').exec(s):
\* the leftmost opener that a closer follows, and the nearest such closer;
\* with the s flag the lazy group runs over any character.  <<>> is null,
\* <<body>> a match with match[1] = body.
CdataMatch(s, tag) ==
    LET opener == "<" \o tag \o "><![CDATA["
        closer == "]]></" \o tag \o ">"
        p      == IndexOf(s, opener, 1)
        q      == IF p = 0 THEN 0 ELSE IndexOf(s, closer, p + Len(opener))
    IN  IF q = 0 THEN <<>> ELSE <<Slice(s, p + Len(opener), q - 1)>>

\* new RegExp(`<${tagName}>(.*?)</${tagName}>`).exec(s): the leftmost opener
\* whose nearest closer comes before any line terminator.
PlainMatch(s, tag) ==
    LET opener == "<" \o tag \o ">"
        closer == "</" \o tag \o ">"
        Close(p) == IndexOf(s, closer, p + Len(opener))
        starts == {p \in 1..Len(s) :
                     /\ StartsWithAt(s, opener, p)
                     /\ Close(p) # 0
                     /\ \A i \in (p + Len(opener))..(Close(p) - 1) :
                            ~IsLineTerminator(At(s, i))}
    IN  IF starts = {} THEN <<>>
        ELSE LET p == Min(starts)
             IN  <<Slice(s, p + Len(opener), Close(p) - 1)>>

getTagContent(s, tag) ==
    LET match == CdataMatch(s, tag)
    IN  IF match # <<>> /\ match[1] # "" THEN match[1]
        ELSE LET fallbackMatch == PlainMatch(s, tag)
             IN  IF fallbackMatch # <<>> THEN fallbackMatch[1] ELSE ""

(***************************************************************************)
(* getHashFromMagnet (Acgnx.ts 150-153)                                    *)
(***************************************************************************)
HexDigits == "0123456789abcdefABCDEF"

IsHex(c) == \E i \in 1..Len(HexDigits) : At(HexDigits, i) = c

\* The length of an info hash in hexadecimal characters.
HashLen == 40

AllHex(s) == \A i \in 1..Len(s) : IsHex(At(s, i))

\* /urn:btih:([a-fA-F0-9]{40})/.exec(magnet): <<>> is null.
getHashFromMagnet(magnet) ==
    LET prefix == "urn:btih:"
        starts == {p \in 1..Len(magnet) :
                     /\ StartsWithAt(magnet, prefix, p)
                     /\ p + Len(prefix) + HashLen - 1 <= Len(magnet)
                     /\ AllHex(SubSeq(magnet, p + Len(prefix),
                                      p + Len(prefix) + HashLen - 1))}
    IN  IF starts = {} THEN <<>>
        ELSE LET p == Min(starts)
             IN  <<SubSeq(magnet, p + Len(prefix), p + Len(prefix) + HashLen - 1)>>

(***************************************************************************)
(* The steps of the callback of parseTorrentsFromXml (Acgnx.ts 66-137)     *)
(***************************************************************************)
\* s.replace(/<[^>]*>/g, '') from position from on: every `<` that a `>`
\* follows is removed together with everything up to the nearest `>`.
RECURSIVE StripTagsFrom(_, _)
StripTagsFrom(s, from) ==
    LET lt == IndexOf(s, "<", from)
        gt == IF lt = 0 THEN 0 ELSE IndexOf(s, ">", lt + 1)
    IN  IF gt = 0 THEN From(s, from)
        ELSE Slice(s, from, lt - 1) \o StripTagsFrom(s, gt + 1)

StripTags(s) == StripTagsFrom(s, 1)

\* /<enclosure url="(magnet:[^"]+)"/.exec(itemXml), and line 77: the capture
\* of the leftmost match, '' when there is none.
MagnetLinkOf(itemXml) ==
    LET lead   == "<enclosure url=\""
        scheme == "magnet:"
        Quote(p) == IndexOf(itemXml, "\"", p + Len(lead) + Len(scheme))
        starts == {p \in 1..Len(itemXml) :
                     /\ StartsWithAt(itemXml, lead \o scheme, p)
                     /\ Quote(p) > p + Len(lead) + Len(scheme)}
    IN  IF starts = {} THEN ""
        ELSE LET p == Min(starts)
             IN  Slice(itemXml, p + Len(lead), Quote(p) - 1)

\* The end of the run of white space of s that starts at position from.
SkipSpaces(s, from) ==
    LET stops == {i \in from..Len(s) : ~IsSpace(At(s, i))}
    IN  IF stops = {} THEN Len(s) + 1 ELSE Min(stops)

SizeUnits == {"kb", "mb", "gb", "tb"}

\* /\d+(\.\d+)?\s*(KB|MB|GB|TB)/i matched at position i of s: digits, the
\* optional fraction (taken or not), white space, a unit in either case.
SizePatternAt(s, i) ==
    LET intLen  == DigitRun(s, i)
        a       == i + intLen
        fracLen == IF At(s, a) = "." THEN DigitRun(s, a + 1) ELSE 0
        UnitAt(j) == ToLowerCase(Slice(s, j, IF j + 1 <= Len(s) THEN j + 1 ELSE 0))
                         \in SizeUnits
    IN  /\ intLen >= 1
        /\ \/ UnitAt(SkipSpaces(s, a))
           \/ fracLen >= 1 /\ UnitAt(SkipSpaces(s, a + 1 + fracLen))

\* /\d+(\.\d+)?\s*(KB|MB|GB|TB)/i.test(s)
SizePatternTest(s) == \E i \in 1..Len(s) : SizePatternAt(s, i)

\* The placeholder of line 84.
SizePlaceholder == "0 MB"

\* FormattedSizeOf by position instead of by pattern: the second part.
FormattedSizeByIndex(descriptionParts) ==
    IF Len(descriptionParts) > 1 THEN Trim(descriptionParts[2]) ELSE SizePlaceholder

\* Lines 84-90: the first part whose trimmed text passes the test, trimmed.
FormattedSizeOf(descriptionParts) ==
    LET hits == {i \in 1..Len(descriptionParts) :
                    SizePatternTest(Trim(descriptionParts[i]))}
    IN  IF hits = {} THEN SizePlaceholder ELSE Trim(descriptionParts[Min(hits)])

\* InfoHashOf with the order of lines 93-102 turned around: the description
\* is scanned first and the magnet link is the fallback.
InfoHashDescriptionFirst(magnetLink, descriptionParts) ==
    LET fromMagnet == getHashFromMagnet(magnetLink)
        hits == {i \in 1..Len(descriptionParts) :
                    LET trimmedPart == Trim(descriptionParts[i])
                    IN  Len(trimmedPart) = HashLen /\ AllHex(trimmedPart)}
    IN  IF hits # {} THEN Trim(descriptionParts[Min(hits)])
        ELSE IF fromMagnet # <<>> THEN fromMagnet[1]
        ELSE ""

\* Lines 93-102: the hash of the magnet link, else the first part whose
\* trimmed text is 40 characters of /^[a-f0-9]+$/i, else ''.
InfoHashOf(magnetLink, descriptionParts) ==
    LET fromMagnet == getHashFromMagnet(magnetLink)
        hits == {i \in 1..Len(descriptionParts) :
                    LET trimmedPart == Trim(descriptionParts[i])
                    IN  Len(trimmedPart) = HashLen /\ AllHex(trimmedPart)}
    IN  IF fromMagnet # <<>> THEN fromMagnet[1]
        ELSE IF hits = {} THEN ""
        ELSE Trim(descriptionParts[Min(hits)])

\* parseInt(s): the decimal digits that follow the leading white space and an
\* optional sign; nan when there are none.  (Episode numbers of the model are
\* short, unsigned or signed decimal numerals.)
RECURSIVE DigitsValue(_, _, _)
DigitsValue(s, from, len) ==
    IF len = 0 THEN 0
    ELSE 10 * DigitsValue(s, from, len - 1) + DigitVal(At(s, from + len - 1))

ParseInt(s) ==
    LET start  == SkipSpaces(s, 1)
        signed == At(s, start) \in {"+", "-"}
        first  == IF signed THEN start + 1 ELSE start
        len    == DigitRun(s, first)
    IN  [nan   |-> len = 0,
         value |-> IF At(s, start) = "-" THEN 0 - DigitsValue(s, first, len)
                   ELSE DigitsValue(s, first, len)]

\* $habari.parse(title) under the behaviour h of the ambient parser: it
\* throws on the titles of h.throwsOn and returns h.metadata on the others.
HabariParse(h, title) ==
    [throws |-> title \in h.throwsOn, metadata |-> h.metadata]

\* Lines 106-112.
EpisodeNumberOf(metadata) ==
    IF Len(metadata.episode_number) > 0
    THEN LET parsedEp == ParseInt(metadata.episode_number[1])
         IN  IF parsedEp.nan THEN -1 ELSE parsedEp.value
    ELSE -1

(***************************************************************************)
(* new Date(pubDate).toISOString() (Acgnx.ts 116).  The model parses the   *)
(* two forms of the ECMAScript date-time format that it feeds,             *)
(* YYYY-MM-DD and YYYY-MM-DDTHH:mm:ssZ, both UTC; every other string of    *)
(* the model (the empty string, text that is no date) is an invalid date.  *)
(***************************************************************************)
RECURSIVE Pow10(_)
Pow10(k) == IF k = 0 THEN 1 ELSE 10 * Pow10(k - 1)

\* n written with width digits, zero-padded.
Pad(n, width) ==
    JoinRange([i \in 1..width |-> DigitChar((n \div Pow10(width - i)) % 10)],
              1, width)

IsLeapYear(y) == (y % 4 = 0 /\ y % 100 # 0) \/ y % 400 = 0

DaysInMonth(y, mo) ==
    IF mo = 2 THEN (IF IsLeapYear(y) THEN 29 ELSE 28)
    ELSE IF mo \in {4, 6, 9, 11} THEN 30 ELSE 31

\* Whether the characters of s at the positions of at are all digits.
DigitsAt(s, at) == \A i \in at : IsDigit(At(s, i))

InvalidDate == [valid |-> FALSE, y |-> 0, mo |-> 0, d |-> 0, h |-> 0, mi |-> 0, sec |-> 0, ms |-> 0]

\* new Date(s): the time value as its UTC fields, or an invalid date.
DateParse(s) ==
    LET dateOk == /\ Len(s) \in {10, 20}
                  /\ DigitsAt(s, {1, 2, 3, 4, 6, 7, 9, 10})
                  /\ At(s, 5) = "-" /\ At(s, 8) = "-"
        timeOk == \/ Len(s) = 10
                  \/ /\ DigitsAt(s, {12, 13, 15, 16, 18, 19})
                     /\ At(s, 11) = "T" /\ At(s, 14) = ":" /\ At(s, 17) = ":"
                     /\ At(s, 20) = "Z"
        withTime == Len(s) = 20
        date == [valid |-> TRUE,
                 y   |-> DigitsValue(s, 1, 4),
                 mo  |-> DigitsValue(s, 6, 2),
                 d   |-> DigitsValue(s, 9, 2),
                 h   |-> IF withTime THEN DigitsValue(s, 12, 2) ELSE 0,
                 mi  |-> IF withTime THEN DigitsValue(s, 15, 2) ELSE 0,
                 sec |-> IF withTime THEN DigitsValue(s, 18, 2) ELSE 0,
                 ms  |-> 0]
    IN  IF /\ dateOk
           /\ timeOk
           /\ date.mo \in 1..12
           /\ date.d \in 1..DaysInMonth(date.y, date.mo)
           /\ date.h <= 23 /\ date.mi <= 59 /\ date.sec <= 59
        THEN date
        ELSE InvalidDate

\* ToISOString with a sentinel instead of the RangeError.
ToISOStringOrEpoch(date) ==
    IF ~date.valid THEN <<"1970-01-01T00:00:00.000Z">>
    ELSE <<Pad(date.y, 4) \o "-" \o Pad(date.mo, 2) \o "-" \o Pad(date.d, 2)
           \o "T" \o Pad(date.h, 2) \o ":" \o Pad(date.mi, 2) \o ":"
           \o Pad(date.sec, 2) \o "." \o Pad(date.ms, 3) \o "Z">>

\* date.toISOString(): <<>> when it throws a RangeError (an invalid date),
\* else <<text>>.
ToISOString(date) ==
    IF ~date.valid THEN <<>>
    ELSE <<Pad(date.y, 4) \o "-" \o Pad(date.mo, 2) \o "-" \o Pad(date.d, 2)
           \o "T" \o Pad(date.h, 2) \o ":" \o Pad(date.mi, 2) \o ":"
           \o Pad(date.sec, 2) \o "." \o Pad(date.ms, 3) \o "Z">>

(***************************************************************************)
(* parseTorrentsFromXml (Acgnx.ts 62-138)                                  *)
(***************************************************************************)
\* The callback of items.map, lines 66-136: <<>> is the null of the catch
\* clause, <<torrent>> the object of lines 114-132.
ItemCallback(itemXml, h) ==
    LET title       == Trim(StripTags(getTagContent(itemXml, "title")))
        link        == getTagContent(itemXml, "link")
        pubDate     == getTagContent(itemXml, "pubDate")
        description == getTagContent(itemXml, "description")
        magnetLink  == MagnetLinkOf(itemXml)
        cleanedDescription == Trim(StripTags(description))
        descriptionParts   == Split(cleanedDescription, "|")
        formattedSize == FormattedSizeOf(descriptionParts)
        infoHash    == InfoHashOf(magnetLink, descriptionParts)
        parsed      == HabariParse(h, title)
        metadata    == parsed.metadata
        date        == ToISOString(DateParse(pubDate))
    IN  IF parsed.throws \/ date = <<>> THEN <<>>
        ELSE <<[name          |-> title,
                date          |-> date[1],
                size          |-> parseSizeToBytes(formattedSize),
                formattedSize |-> formattedSize,
                seeders       |-> -1,
                leechers      |-> -1,
                downloadCount |-> 0,
                link          |-> link,
                downloadUrl   |-> "",
                magnetLink    |-> magnetLink,
                infoHash      |-> ToLowerCase(infoHash),
                resolution    |-> metadata.video_resolution,
                isBatch       |-> Len(metadata.episode_number) > 1,
                episodeNumber |-> EpisodeNumberOf(metadata),
                releaseGroup  |-> metadata.release_group,
                isBestRelease |-> FALSE,
                confirmed     |-> FALSE]>>

\* Shift that forgets to drop the channel header.
NoShift(items) == items

\* items.shift(): split yields at least one segment, the channel header.
Shift(items) == Tail(items)

\* FilterNotNull as if the first exception ended the whole map: nothing after
\* the first null is kept.
RECURSIVE TakeUntilNull(_)
TakeUntilNull(results) ==
    IF results = <<>> \/ results[1] = <<>> THEN <<>>
    ELSE results[1] \o TakeUntilNull(Tail(results))

\* .filter(t => t !== null) on the results of the callback, in order.
RECURSIVE FilterNotNull(_)
FilterNotNull(results) ==
    IF results = <<>> THEN <<>>
    ELSE results[1] \o FilterNotNull(Tail(results))

parseTorrentsFromXml(x, h) ==
    LET items == Shift(Split(x, "<item>"))
    IN  FilterNotNull([i \in 1..Len(items) |-> ItemCallback(items[i], h)])

(***************************************************************************)
(* encodeURIComponent (Acgnx.ts 20).  A query is a sequence of UTF-16 code *)
(* units; the result is ASCII text, or a URIError for a lone surrogate.    *)
(***************************************************************************)
\* The marks encodeURIComponent leaves as they are, and their code units.
UriMarks == "-_.!~*'()"

UriMarkUnits == <<45, 95, 46, 33, 126, 42, 39, 40, 41>>

\* Letters, digits and the marks are left as they are.
IsUnreserved(unit) ==
    \/ unit \in 65..90
    \/ unit \in 97..122
    \/ unit \in 48..57
    \/ \E i \in 1..Len(UriMarkUnits) : UriMarkUnits[i] = unit

\* The character of an unreserved code unit.
CharOf(unit) ==
    IF unit \in 65..90 THEN At(UpperAlpha, unit - 64)
    ELSE IF unit \in 97..122 THEN At(LowerAlpha, unit - 96)
    ELSE IF unit \in 48..57 THEN DigitChar(unit - 48)
    ELSE At(UriMarks, CHOOSE i \in 1..Len(UriMarkUnits) : UriMarkUnits[i] = unit)

IsHighSurrogate(unit) == unit \in 55296..56319

IsLowSurrogate(unit) == unit \in 56320..57343

UpperHex == "0123456789ABCDEF"

PercentByte(b) == "%" \o At(UpperHex, (b \div 16) + 1) \o At(UpperHex, (b % 16) + 1)

\* The UTF-8 encoding of a code point, each byte percent-encoded.
PercentUtf8(cp) ==
    IF cp < 128 THEN PercentByte(cp)
    ELSE IF cp < 2048
    THEN PercentByte(192 + (cp \div 64)) \o PercentByte(128 + (cp % 64))
    ELSE IF cp < 65536
    THEN PercentByte(224 + (cp \div 4096)) \o PercentByte(128 + ((cp \div 64) % 64))
         \o PercentByte(128 + (cp % 64))
    ELSE PercentByte(240 + (cp \div 262144)) \o PercentByte(128 + ((cp \div 4096) % 64))
         \o PercentByte(128 + ((cp \div 64) % 64)) \o PercentByte(128 + (cp % 64))

\* <<>> when a URIError is thrown, else <<text>>.
RECURSIVE EncodeFrom(_, _)
EncodeFrom(units, k) ==
    IF k > Len(units) THEN <<"">>
    ELSE LET u == units[k]
             paired == /\ IsHighSurrogate(u)
                       /\ k < Len(units)
                       /\ IsLowSurrogate(units[k + 1])
             lone == (IsHighSurrogate(u) /\ ~paired) \/ IsLowSurrogate(u)
             rest == EncodeFrom(units, IF paired THEN k + 2 ELSE k + 1)
             this == IF IsUnreserved(u) THEN CharOf(u)
                     ELSE IF paired
                     THEN PercentUtf8((u - 55296) * 1024 + (units[k + 1] - 56320) + 65536)
                     ELSE PercentUtf8(u)
         IN  IF lone \/ rest = <<>> THEN <<>> ELSE <<this \o rest[1]>>

EncodeURIComponent(units) == EncodeFrom(units, 1)

(***************************************************************************)
(* The public methods (Acgnx.ts 9-59).  A completion is what a call hands  *)
(* its caller: a returned value, or an exception (a rejected promise).     *)
(***************************************************************************)
Return(method, value) == [method |-> method, kind |-> "return", value |-> value]

Throw(method, error) == [method |-> method, kind |-> "throw", value |-> error]

\* Line 6.
ApiUrl == "https://share.acgnx.se/rss.xml"

\* Lines 10-15.
Settings ==
    [canSmartSearch |-> FALSE, smartSearchFilters |-> <<>>,
     supportsAdult |-> TRUE, type |-> "main"]

\* Line 20: <<>> when building the URL throws, else <<url>>.
SearchUrl(base, query) ==
    LET keyword == EncodeURIComponent(query)
    IN  IF keyword = <<>> THEN <<>> ELSE <<base \o "?keyword=" \o keyword[1]>>

(***************************************************************************)
(* Inputs: feed bodies assembled from entries.  An entry is described by   *)
(* the text of its title, link and pubDate, the parts of its description   *)
(* and the URL of its enclosure; "" or <<>> leaves the element out.        *)
(***************************************************************************)
\* The most entries of a feed body with several entries.
MaxItems == 2

\* The most fetches the provider issues in a run.
MaxFetches == 2

\* parts[1] \o sep \o parts[2] \o ...
RECURSIVE JoinWith(_, _)
JoinWith(seq, sep) ==
    IF seq = <<>> THEN ""
    ELSE IF Len(seq) = 1 THEN seq[1]
    ELSE seq[1] \o sep \o JoinWith(Tail(seq), sep)

FeedHeader ==
    "<?xml version=\"1.0\"?>\n<rss version=\"2.0\"><channel>\n"
    \o "<title>ACGNX</title>\n<link>https://share.acgnx.se</link>\n"
    \o "<pubDate>2024-05-17T00:00:00Z</pubDate>\n"

FeedFooter == "</channel></rss>\n"

RenderEntry(d) ==
    "<item>\n<title><![CDATA[" \o d.title \o "]]></title>\n"
    \o (IF d.link = "" THEN "" ELSE "<link>" \o d.link \o "</link>\n")
    \o (IF d.pubDate = "" THEN ""
        ELSE "<pubDate>" \o d.pubDate \o "</pubDate>\n")
    \o (IF d.descParts = <<>> THEN ""
        ELSE "<description><![CDATA[" \o JoinWith(d.descParts, "|")
             \o "]]></description>\n")
    \o (IF d.magnet = "" THEN ""
        ELSE "<enclosure url=\"" \o d.magnet
             \o "\" length=\"1\" type=\"application/x-bittorrent\"/>\n")
    \o "</item>\n"

RenderFeed(entries) ==
    FeedHeader
    \o JoinRange([i \in 1..Len(entries) |-> RenderEntry(entries[i])], 1, Len(entries))
    \o FeedFooter

EntryTitles == {"Show - 07 [1080p]", " <b>Bad</b> title "}

\* The pubDate texts that are dates, and those that are not ("": no element).
ValidPubDates == {"2024-05-17T08:30:00Z", "2024-02-29"}

InvalidPubDates == {"", "not a date"}

HashUpper == "ABCDEF0123456789ABCDEF0123456789ABCDEF01"

HashMixed == "0123456789abcdef0123456789ABCDEF01234567"

EntryMagnets ==
    {"",
     "magnet:?xt=urn:btih:" \o HashUpper \o "&dn=show",
     "magnet:?xt=urn:btih:" \o SubSeq(HashUpper, 1, HashLen - 1) \o "&dn=show"}

EntryDescriptions ==
    {<<>>,
     <<"<a href=\"https://share.acgnx.se/show-1.html\">blurb</a> ", " 467.5GB ",
       " batch ", " " \o HashMixed \o " ">>,
     <<"no size here ", " " \o SubSeq(HashMixed, 1, HashLen - 1) \o " ",
       " " \o HashMixed \o "0">>,
     <<" 1.5 gb ", " 700MB ", HashUpper, HashMixed>>,
     <<"ghijklmnopqrstuvwxyzghijklmnopqrstuvwxyz", " 12 B ", "about 3\tKb of text">>,
     <<"TB", "1.TB", " 2TB\n">>}

AllEntries ==
    {[title |-> t, link |-> "https://share.acgnx.se/show-1.html",
      pubDate |-> p, descParts |-> ds, magnet |-> m] :
        t \in EntryTitles, p \in {"2024-05-17T08:30:00Z"} \cup InvalidPubDates,
        ds \in EntryDescriptions, m \in EntryMagnets}

\* The entries of the feeds of several entries: one of each kind.
SomeEntries ==
    {[title |-> "Show - 07 [1080p]", link |-> "https://share.acgnx.se/show-1.html",
      pubDate |-> "2024-05-17T08:30:00Z",
      descParts |-> <<"blurb ", " 467.5GB ", " batch ", " " \o HashMixed>>,
      magnet |-> "magnet:?xt=urn:btih:" \o HashUpper \o "&dn=show"],
     [title |-> "Show - 08", link |-> "https://share.acgnx.se/show-2.html",
      pubDate |-> "2024-02-29", descParts |-> <<"no size here">>, magnet |-> ""],
     [title |-> " <b>Bad</b> title ", link |-> "https://share.acgnx.se/show-3.html",
      pubDate |-> "2024-05-17T08:30:00Z",
      descParts |-> <<" 700MB ", HashMixed>>, magnet |-> "magnet:?dn=show"],
     [title |-> "Undated", link |-> "",
      pubDate |-> "", descParts |-> <<" 1.5 gb ">>,
      magnet |-> "magnet:?xt=urn:btih:" \o HashUpper]}

\* The sequences over S of the lengths lo..hi.
SeqsOf(S, lo, hi) == UNION {[1..n -> S] : n \in lo..hi}

FeedParts ==
    {<<>>} \cup {<<d>> : d \in AllEntries} \cup SeqsOf(SomeEntries, 2, MaxItems)

\* Bodies that were not assembled from entries.
BareBodies == {"", "<html><body>502 Bad Gateway</body></html>"}

\* What $habari.parse does: the titles it throws on, and what it returns on
\* the others ("" and <<>> also stand for a field that is undefined).
HabariBehaviours ==
    {[throwsOn |-> {},
      metadata |-> [episode_number |-> <<"07">>, video_resolution |-> "1080p",
                    release_group |-> ""]],
     [throwsOn |-> {"Bad title"},
      metadata |-> [episode_number |-> <<"n/a", "12">>, video_resolution |-> "",
                    release_group |-> "ACGNX"]]}

(***************************************************************************)
(* ParseSpec: parseTorrentsFromXml applied to a feed body.                 *)
(***************************************************************************)
NoCompletion == [method |-> "none", kind |-> "none", value |-> <<>>]

NoCall == [method |-> "none", arg |-> <<>>]

\* The variables a specification of one function leaves at rest.
ProviderIdle ==
    /\ api = ApiUrl
    /\ pending = <<>>
    /\ fetches = 0
    /\ ret = NoCompletion
    /\ called = NoCall

ParseIdle == parts = <<>> /\ xml = "" /\ torrents = <<>>

SizeIdle == sizeStr = "" /\ bytes = ""

TagIdle == fragment = "" /\ tagName = "" /\ content = ""

ParseInit ==
    /\ ProviderIdle /\ SizeIdle /\ TagIdle
    /\ habari \in HabariBehaviours
    /\ \/ parts \in FeedParts /\ xml = RenderFeed(parts)
       \/ parts = <<>> /\ xml \in BareBodies
    /\ torrents = <<>>
    /\ pc = "call"

ParseTorrents ==
    /\ pc = "call"
    /\ torrents' = parseTorrentsFromXml(xml, habari)
    /\ pc' = "done"
    /\ UNCHANGED <<api, pending, fetches, ret, habari, parts, xml,
                   sizeStr, bytes, fragment, tagName, content, called>>

ParseNext == ParseTorrents

ParseSpec == ParseInit /\ [][ParseNext]_vars

(***************************************************************************)
(* What the entries of parts are expected to yield.                        *)
(***************************************************************************)
CleanTitle(d) == Trim(StripTags(d.title))

\* Whether the processing of entry d raises: its date conversion throws, or
\* $habari.parse throws on its title.
Raises(d, h) == d.pubDate \notin ValidPubDates \/ CleanTitle(d) \in h.throwsOn

Survivors == SelectSeq(parts, LAMBDA d : ~Raises(d, habari))

\* The records of the feed that holds entry d alone.
Alone(d) == parseTorrentsFromXml(RenderFeed(<<d>>), habari)

\* The number of '<item>' markers of the body.
Markers == Cardinality({i \in 1..Len(xml) : StartsWithAt(xml, "<item>", i)})

\* Whether records ts come, in order, from some of the entries ds.
RECURSIVE Embeds(_, _)
Embeds(ts, ds) ==
    IF ts = <<>> THEN TRUE
    ELSE IF ds = <<>> THEN FALSE
    ELSE IF ts[1].link = ds[1].link /\ ts[1].name = CleanTitle(ds[1])
    THEN Embeds(Tail(ts), Tail(ds))
    ELSE Embeds(ts, Tail(ds))

\* The parts of the description of d with the markup taken out.
CleanParts(d) ==
    IF d.descParts = <<>> THEN <<"">>
    ELSE [k \in 1..Len(d.descParts) |-> StripTags(d.descParts[k])]

IsHashPart(part) == Len(Trim(part)) = HashLen /\ AllHex(Trim(part))

LowerHex == "0123456789abcdef"

IsLowerHash(s) ==
    /\ Len(s) = HashLen
    /\ \A i \in 1..Len(s) : Includes(LowerHex, At(s, i))

\* YYYY-MM-DDTHH:mm:ss.sssZ
IsIsoDate(s) ==
    /\ Len(s) = 24
    /\ DigitsAt(s, {1, 2, 3, 4, 6, 7, 9, 10, 12, 13, 15, 16, 18, 19, 21, 22, 23})
    /\ At(s, 5) = "-" /\ At(s, 8) = "-" /\ At(s, 11) = "T"
    /\ At(s, 14) = ":" /\ At(s, 17) = ":" /\ At(s, 20) = "." /\ At(s, 24) = "Z"

\* seqs[1] \o seqs[2] \o ...
RECURSIVE Flatten(_)
Flatten(seqs) == IF seqs = <<>> THEN <<>> ELSE seqs[1] \o Flatten(Tail(seqs))

\* C2: once a body is parsed, the records are those each entry yields when it
\* is alone in the feed, in order; an entry yields nothing exactly when its
\* processing raises, and a record otherwise, whatever the other entries do.
C2_RaisingFragmentsAloneAreDropped ==
    pc = "done" =>
        /\ \A i \in 1..Len(parts) :
               Len(Alone(parts[i])) = (IF Raises(parts[i], habari) THEN 0 ELSE 1)
        /\ torrents = Flatten([i \in 1..Len(parts) |-> Alone(parts[i])])

C2_Witness ==
    /\ pc = "done"
    /\ Len(parts) >= 2
    /\ CleanTitle(parts[1]) \in habari.throwsOn
    /\ parts[1].pubDate \in ValidPubDates
    /\ ~Raises(parts[2], habari)
    /\ Len(torrents) >= 1
    /\ torrents[1].link = parts[2].link

\* C3: a body with N '<item>' markers yields at most N records, and the
\* records come from the entries in feed order; no marker, no record.
C3_AtMostNInFeedOrder ==
    pc = "done" =>
        /\ Len(torrents) <= Markers
        /\ Embeds(torrents, parts)
        /\ (Markers = 0 => torrents = <<>>)

C3_Witness ==
    /\ pc = "done"
    /\ Markers >= 2
    /\ Len(torrents) = 2
    /\ torrents[1].link # torrents[2].link

\* C6: the infoHash of a record is the lower-cased urn:btih: value of the
\* magnet URI when it has one of 40 hexadecimal characters, else the
\* lower-cased first description part that trims to 40 hexadecimal
\* characters, else empty; so it is empty or 40 lower-case hex characters.
C6_InfoHashPriority ==
    pc = "done" =>
        /\ Len(torrents) = Len(Survivors)
        /\ \A i \in 1..Len(torrents) :
               LET d    == Survivors[i]
                   btih == getHashFromMagnet(d.magnet)
                   hits == {k \in 1..Len(CleanParts(d)) : IsHashPart(CleanParts(d)[k])}
                   hash == torrents[i].infoHash
               IN  /\ btih # <<>> => hash = ToLowerCase(btih[1])
                   /\ btih = <<>> /\ hits # {} =>
                          hash = ToLowerCase(Trim(CleanParts(d)[Min(hits)]))
                   /\ btih = <<>> /\ hits = {} => hash = ""
                   /\ hash = "" \/ IsLowerHash(hash)

C6_Witness ==
    /\ pc = "done"
    /\ Len(torrents) = 1
    /\ \E k \in 1..Len(parts[1].descParts) : IsHashPart(parts[1].descParts[k])
    /\ Includes(parts[1].magnet, "urn:btih:" \o HashUpper)
    /\ torrents[1].infoHash = "abcdef0123456789abcdef0123456789abcdef01"

\* C8: a record whose description has no part with the size pattern (or no
\* description at all) has formattedSize "0 MB" and size 0; otherwise its
\* formattedSize is the first part with the pattern, trimmed.
C8_SizePlaceholderOrFirstMatch ==
    pc = "done" =>
        /\ Len(torrents) = Len(Survivors)
        /\ \A i \in 1..Len(torrents) :
               LET cp   == CleanParts(Survivors[i])
                   hits == {k \in 1..Len(cp) : SizePatternTest(Trim(cp[k]))}
               IN  IF hits = {}
                   THEN torrents[i].formattedSize = "0 MB" /\ torrents[i].size = "0"
                   ELSE torrents[i].formattedSize = Trim(cp[Min(hits)])

C8_Witness ==
    /\ pc = "done"
    /\ Len(torrents) = 1
    /\ Len(parts[1].descParts) >= 2
    /\ torrents[1].formattedSize = "0 MB"
    /\ torrents[1].size = "0"

\* C10: an entry whose pubDate is absent or no date yields no record and
\* leaves the others as they are; every record carries an ISO-8601 date.
C10_UndatedDroppedDatesIso ==
    pc = "done" =>
        /\ \A i \in 1..Len(parts) :
               parts[i].pubDate \in InvalidPubDates => Alone(parts[i]) = <<>>
        /\ Len(torrents) = Len(Survivors)
        /\ \A i \in 1..Len(torrents) :
               /\ IsIsoDate(torrents[i].date)
               /\ SubSeq(torrents[i].date, 1, 10) = SubSeq(Survivors[i].pubDate, 1, 10)
               /\ torrents[i].name = CleanTitle(Survivors[i])

C10_Witness ==
    /\ pc = "done"
    /\ Len(parts) >= 2
    /\ parts[1].pubDate = ""
    /\ parts[2].pubDate = "2024-02-29"
    /\ Len(torrents) = 1
    /\ torrents[1].date = "2024-02-29T00:00:00.000Z"

(***************************************************************************)
(* SizeSpec: parseSizeToBytes applied to a size string, which is a number  *)
(* text, a gap and a unit text.                                            *)
(***************************************************************************)
SizeNumbers ==
    {"0", "1", "2", "1.5", "2.5", "467.5", "1023.9", "0.4", "0.0004", "700",
     ".5", "12.", "1.2.3", ""}

SizeGaps == {"", " "}

SizeUnitTexts == {"KB", "MB", "GB", "TB", "kb", "Mb", "gB", "tb", "", "B"}

SizeInit ==
    /\ ProviderIdle /\ TagIdle
    /\ habari = <<>> /\ xml = "" /\ torrents = <<>>
    /\ parts \in [number : SizeNumbers, gap : SizeGaps, unit : SizeUnitTexts]
    /\ sizeStr = parts.number \o parts.gap \o parts.unit
    /\ bytes = ""
    /\ pc = "call"

ParseSize ==
    /\ pc = "call"
    /\ bytes' = parseSizeToBytes(sizeStr)
    /\ pc' = "done"
    /\ UNCHANGED <<api, pending, fetches, ret, habari, parts, xml, torrents,
                   sizeStr, fragment, tagName, content, called>>

SizeNext == ParseSize

SizeSpec == SizeInit /\ [][SizeNext]_vars

\* The number texts that are one decimal literal.
IsPlainNumber(text) ==
    /\ text # ""
    /\ DigitRun(text, 1) >= 1
    /\ \/ DigitRun(text, 1) = Len(text)
       \/ /\ At(text, DigitRun(text, 1) + 1) = "."
          /\ DigitRun(text, DigitRun(text, 1) + 2) = Len(text) - DigitRun(text, 1) - 1
          /\ DigitRun(text, 1) + 1 < Len(text)

\* The power of 1024 the claim gives each unit.
ClaimedPower(unit) ==
    LET u == ToLowerCase(unit)
    IN  IF u = "kb" THEN 1
        ELSE IF u = "mb" THEN 2
        ELSE IF u = "gb" THEN 3
        ELSE IF u = "tb" THEN 4
        ELSE 0

RECURSIVE Times1024(_, _)
Times1024(n, times) ==
    IF times = 0 THEN n ELSE Times1024(MulAdd(n, 1024, 0), times - 1)

\* C4: the byte count of <number><unit> is the number times 1024, 1024^2,
\* 1024^3, 1024^4 for KB, MB, GB, TB, the number itself without a unit,
\* rounded to the nearest integer.
C4_FourBinaryUnits ==
    pc = "done" /\ IsPlainNumber(parts.number) /\ parts.unit # "B" =>
        LET value == ParseFloat(parts.number)
        IN  bytes = Numeral(MathRound(Times1024(value.mantissa, ClaimedPower(parts.unit)),
                                      value.scale))

\* C5 as stated: "1.5GB" is 1,610,612,736 bytes and "467.5GB" is
\* 502,078,838,374 bytes.
C5_AsStated ==
    pc = "done" =>
        /\ sizeStr = "1.5GB" => bytes = "1610612736"
        /\ sizeStr = "467.5GB" => bytes = "502078838374"

\* C5: "1.5GB" is 1,610,612,736 bytes and "467.5GB" is 501,974,302,720
\* bytes (467.5 * 1024^3).
C5_SizeExamples ==
    pc = "done" =>
        /\ sizeStr = "1.5GB" => bytes = "1610612736"
        /\ sizeStr = "467.5GB" => bytes = "501974302720"

C5_Witness == pc = "done" /\ sizeStr = "467.5GB" /\ bytes = "501974302720"

(***************************************************************************)
(* TagSpec: getTagContent applied to a fragment that holds a CDATA-wrapped *)
(* element of the tag, a plain one, both (in either order) or neither,     *)
(* among elements of another tag.                                          *)
(***************************************************************************)
TagNames == {"title", "link", "pubDate", "description"}

CdataBodies == {"text", "", "two\nlines", "<b>bold</b> text", "a]]>b"}

PlainBodies == {"plain", "", "two\nlines", "https://share.acgnx.se/?a=1"}

\* <<>>: no such element; <<body>>: the element with that body.
Optional(S) == {<<>>} \cup {<<b>> : b \in S}

RenderCdata(tag, body) ==
    IF body = <<>> THEN ""
    ELSE "<" \o tag \o "><![CDATA[" \o body[1] \o "]]></" \o tag \o ">\n"

RenderPlain(tag, body) ==
    IF body = <<>> THEN ""
    ELSE "<" \o tag \o ">" \o body[1] \o "</" \o tag \o ">\n"

RenderFragment(p) ==
    "\n<guid>g-1</guid>\n"
    \o (IF p.cdataFirst
        THEN RenderCdata(p.tag, p.cdata) \o RenderPlain(p.tag, p.plain)
        ELSE RenderPlain(p.tag, p.plain) \o RenderCdata(p.tag, p.cdata))
    \o "<author><![CDATA[someone]]></author>\n</item>\n"

TagInit ==
    /\ ProviderIdle /\ SizeIdle
    /\ habari = <<>> /\ xml = "" /\ torrents = <<>>
    /\ parts \in [tag : TagNames, cdata : Optional(CdataBodies),
                  plain : Optional(PlainBodies), cdataFirst : BOOLEAN]
    /\ fragment = RenderFragment(parts)
    /\ tagName = parts.tag
    /\ content = ""
    /\ pc = "call"

GetTag ==
    /\ pc = "call"
    /\ content' = getTagContent(fragment, tagName)
    /\ pc' = "done"
    /\ UNCHANGED <<api, pending, fetches, ret, habari, parts, xml, torrents,
                   sizeStr, bytes, fragment, tagName, called>>

TagNext == GetTag

TagSpec == TagInit /\ [][TagNext]_vars

IsSingleLine(s) == \A i \in 1..Len(s) : ~IsLineTerminator(At(s, i))

\* C7: the content is the CDATA-wrapped body whenever the fragment has one,
\* whatever that text is; else the body of the single-line plain element;
\* else the empty string.
C7_CdataBodyWhateverItIs ==
    pc = "done" =>
        content = (IF parts.cdata # <<>> THEN parts.cdata[1]
                   ELSE IF parts.plain # <<>> /\ IsSingleLine(parts.plain[1])
                   THEN parts.plain[1]
                   ELSE "")

(***************************************************************************)
(* Spec: the provider.  Each public method is one step, except search and  *)
(* getLatest, which suspend at `await fetch(url)` and complete when the    *)
(* fetch settles; calls may overlap.                                       *)
(***************************************************************************)
\* Queries, as UTF-16 code units: "", "a b", U+1F600 (a surrogate pair), a
\* lone high surrogate, and a low surrogate that follows none.
Queries == {<<>>, <<97, 32, 98>>, <<55357, 56832>>, <<55357>>, <<97, 56832>>}

\* The bodies the server answers with.
ServedBodies ==
    {RenderFeed(<<>>),
     RenderFeed(<<CHOOSE d \in SomeEntries : d.title = "Show - 07 [1080p]",
                  CHOOSE d \in SomeEntries : d.title = "Undated",
                  CHOOSE d \in SomeEntries : d.title = " <b>Bad</b> title ">>),
     "<html><body>502 Bad Gateway</body></html>"}

\* How `await fetch(url)` settles, and what response.text() then does
\* (text = <<>>: it throws).
FetchOutcomes ==
    {[kind |-> "rejects", ok |-> FALSE, status |-> 0, text |-> <<>>]}
    \cup {[kind |-> "resolves", ok |-> FALSE, status |-> st, text |-> <<b>>] :
              st \in {404, 503}, b \in {"<html><body>502 Bad Gateway</body></html>"}}
    \cup {[kind |-> "resolves", ok |-> TRUE, status |-> 200, text |-> t] :
              t \in Optional(ServedBodies)}

\* The records handed to getTorrentInfoHash and getTorrentMagnetLink.
TorrentArgs ==
    {[name |-> "Show - 07 [1080p]",
      infoHash |-> "abcdef0123456789abcdef0123456789abcdef01",
      magnetLink |-> "magnet:?xt=urn:btih:" \o HashUpper \o "&dn=show"],
     [name |-> "Show - 08", infoHash |-> "", magnetLink |-> ""],
     [name |-> "Show - 09"]}

\* torrent.infoHash || "" and torrent.magnetLink || "" (lines 37, 42).
FieldOrEmpty(torrent, field) ==
    IF field \in DOMAIN torrent THEN torrent[field] ELSE ""

\* this.parseTorrentsFromXml(xmlText) of line 53, tabulated: the records of
\* each body the server answers with, under each behaviour of $habari.parse.
ParseTable ==
    [h \in HabariBehaviours |->
        [b \in ServedBodies |-> parseTorrentsFromXml(b, h)]]

\* Lines 47-58, from the point where `await fetch(url)` settles with outcome:
\* a rejection, a response that is not ok, a response whose text() throws,
\* or a response with a body.
fetchAndParseRss(method, outcome, h) ==
    IF outcome.kind = "rejects" THEN Return(method, <<>>)
    ELSE IF ~outcome.ok THEN Return(method, <<>>)
    ELSE IF outcome.text = <<>> THEN Return(method, <<>>)
    ELSE Return(method, ParseTable[h][outcome.text[1]])

Init ==
    /\ ProviderIdle /\ ParseIdle /\ SizeIdle /\ TagIdle
    /\ habari \in HabariBehaviours
    /\ pc = "call"

Rest == <<habari, parts, xml, torrents, sizeStr, bytes, fragment, tagName, content, pc>>

\* The element of index i taken out of a sequence.
Remove(seq, i) == SubSeq(seq, 1, i - 1) \o SubSeq(seq, i + 1, Len(seq))

getSettings ==
    /\ called' = [method |-> "getSettings", arg |-> <<>>]
    /\ ret' = Return("getSettings", Settings)
    /\ UNCHANGED <<api, pending, fetches>>
    /\ UNCHANGED Rest

search(query) ==
    LET url == SearchUrl(api, query)
    IN  /\ called' = [method |-> "search", arg |-> query]
        /\ IF url = <<>>
           THEN /\ ret' = Throw("search", "URIError")
                /\ UNCHANGED <<pending, fetches>>
           ELSE /\ fetches < MaxFetches
                /\ fetches' = fetches + 1
                /\ pending' = Append(pending, [method |-> "search", url |-> url[1]])
                /\ UNCHANGED ret
        /\ UNCHANGED api
        /\ UNCHANGED Rest

smartSearch ==
    /\ called' = [method |-> "smartSearch", arg |-> <<>>]
    /\ ret' = Return("smartSearch", <<>>)
    /\ UNCHANGED <<api, pending, fetches>>
    /\ UNCHANGED Rest

getLatest ==
    /\ fetches < MaxFetches
    /\ called' = [method |-> "getLatest", arg |-> <<>>]
    /\ fetches' = fetches + 1
    /\ pending' = Append(pending, [method |-> "getLatest", url |-> api])
    /\ UNCHANGED <<api, ret>>
    /\ UNCHANGED Rest

getTorrentInfoHash(torrent) ==
    /\ called' = [method |-> "getTorrentInfoHash", arg |-> torrent]
    /\ ret' = Return("getTorrentInfoHash", FieldOrEmpty(torrent, "infoHash"))
    /\ UNCHANGED <<api, pending, fetches>>
    /\ UNCHANGED Rest

getTorrentMagnetLink(torrent) ==
    /\ called' = [method |-> "getTorrentMagnetLink", arg |-> torrent]
    /\ ret' = Return("getTorrentMagnetLink", FieldOrEmpty(torrent, "magnetLink"))
    /\ UNCHANGED <<api, pending, fetches>>
    /\ UNCHANGED Rest

\* The fetch of the suspended call of index i settles and the call completes.
FetchSettles(i, outcome) ==
    /\ called' = [method |-> "resume", arg |-> outcome]
    /\ ret' = fetchAndParseRss(pending[i].method, outcome, habari)
    /\ pending' = Remove(pending, i)
    /\ UNCHANGED <<api, fetches>>
    /\ UNCHANGED Rest

Next ==
    \/ getSettings
    \/ \E query \in Queries : search(query)
    \/ smartSearch
    \/ getLatest
    \/ \E torrent \in TorrentArgs : getTorrentInfoHash(torrent)
    \/ \E torrent \in TorrentArgs : getTorrentMagnetLink(torrent)
    \/ \E i \in 1..Len(pending), outcome \in FetchOutcomes : FetchSettles(i, outcome)

Spec == Init /\ [][Next]_vars

Fetching == {"search", "getLatest"}

\* Whether the fetch failed: it was rejected, or the status is no success.
FetchFailed(outcome) == outcome.kind = "rejects" \/ ~outcome.ok

\* C1: every call of search or getLatest completes by returning a sequence,
\* never by raising; after a failed fetch the sequence is empty.
C1_AlwaysReturnsASequence ==
    /\ ret.method \in Fetching => ret.kind = "return"
    /\ called.method = "resume" /\ FetchFailed(called.arg) =>
           ret.kind = "return" /\ ret.value = <<>>

\* C9: a step issues one fetch when it is a call of search or getLatest and
\* none otherwise; getTorrentInfoHash and getTorrentMagnetLink return the
\* stored field, or "" without one; no step changes the provider's field.
C9_OneFetchPerFetchingCall ==
    [][/\ api' = api
       /\ fetches' = fetches + (IF called'.method \in Fetching THEN 1 ELSE 0)
       /\ called'.method = "getTorrentInfoHash" =>
              ret' = Return("getTorrentInfoHash", FieldOrEmpty(called'.arg, "infoHash"))
       /\ called'.method = "getTorrentMagnetLink" =>
              ret' = Return("getTorrentMagnetLink", FieldOrEmpty(called'.arg, "magnetLink"))
       /\ called'.method \in {"smartSearch", "getSettings"} => pending' = pending
      ]_vars

==========================================================================
